---- MODULE Spec2Model ----
(***************************************************************************)
(* Model of src/screen/src/main.rs: the screenshot tool's one run, from    *)
(* reading ./config.ini to the capture, with the adapter-name parser of    *)
(* active_monitor_number_from_poe_config computed as the code computes it. *)
(*                                                                         *)
(* Strings are sequences of one-character strings (one byte each; the      *)
(* two bytes of a non-ASCII character are "e1" and "e2").  A usize is a    *)
(* little-endian sequence of UsizeLimbs limbs of 16 bits, so that values   *)
(* up to 2^64-1 are exact; an i32 is an integer in -2^31 .. 2^31-1.        *)
(***************************************************************************)
EXTENDS Integers, Sequences, FiniteSets

\* ------------------------------------------------------------- bounds
\* Every string over Alphabet of at most MaxLen characters is an adapter name.
MaxLen == 4
\* Screen::all() returns 0 .. MaxScreens monitors.
MaxScreens == 3

\* ------------------------------------------------------ integer widths
UsizeBits == 64
I32Bits == 32
LimbBase == 2^16
UsizeLimbs == UsizeBits \div 16
I32Max == (2^(I32Bits - 2) - 1) * 2 + 1
I32Min == -I32Max - 1

UsizeZero == [i \in 1..UsizeLimbs |-> 0]
UsizeMax == [i \in 1..UsizeLimbs |-> LimbBase - 1]

\* Option<usize>
NoneU == [some |-> FALSE, val |-> UsizeZero]
SomeU(v) == [some |-> TRUE, val |-> v]
\* Option<usize> of a byte index
NoneI == [some |-> FALSE, val |-> 0]
SomeI(i) == [some |-> TRUE, val |-> i]
\* Option<&str>
NoneS == [some |-> FALSE, val |-> <<>>]
SomeS(s) == [some |-> TRUE, val |-> s]

\* ------------------------------------------------------------ strings
DigitChars == <<"0", "1", "2", "3", "4", "5", "6", "7", "8", "9">>
IsDigit(c) == \E d \in 1..10 : DigitChars[d] = c
\* char::to_digit(10)
DigitVal(c) == (CHOOSE d \in 1..10 : DigitChars[d] = c) - 1

\* s[i..] starts with pat (i is a 0-based byte index)
MatchesAt(s, pat, i) ==
    /\ i + Len(pat) <= Len(s)
    /\ \A k \in 1..Len(pat) : s[i + k] = pat[k]

\* The set of byte indices at which pat occurs in s.
Occurrences(s, pat) == {i \in 0..Len(s) : MatchesAt(s, pat, i)}

\* str::find: the first occurrence (what rfind is not).
Find(s, pat) ==
    LET occ == Occurrences(s, pat)
    IN  IF occ = {} THEN NoneI
        ELSE SomeI(CHOOSE i \in occ : \A j \in occ : i <= j)

\* str::rfind: the byte index of the last occurrence of pat in s.
RFind(s, pat) ==
    LET occ == Occurrences(s, pat)
    IN  IF occ = {} THEN NoneI
        ELSE SomeI(CHOOSE i \in occ : \A j \in occ : j <= i)

\* str::is_char_boundary: "e2" is the continuation byte of a two-byte character.
IsCharBoundary(s, i) == i = 0 \/ i = Len(s) \/ (i < Len(s) /\ s[i + 1] # "e2")

\* A slice that clamps an inverted range to the rest of the string.
StrGetClamped(s, a, b) ==
    IF a > Len(s) THEN NoneS
    ELSE IF a > b THEN SomeS(SubSeq(s, a + 1, Len(s)))
    ELSE IF b > Len(s) THEN NoneS
    ELSE SomeS(SubSeq(s, a + 1, b))

\* str::get(a..b): None when a > b, b > len or an end is inside a character.
StrGet(s, a, b) ==
    IF a > b \/ b > Len(s) \/ ~IsCharBoundary(s, a) \/ ~IsCharBoundary(s, b)
    THEN NoneS
    ELSE SomeS(SubSeq(s, a + 1, b))

\* ---------------------------------------------------- usize arithmetic
RECURSIVE MulAddLimbs(_, _, _, _)
MulAddLimbs(limbs, i, carry, acc) ==
    IF i > UsizeLimbs THEN [val |-> acc, carry |-> carry]
    ELSE LET t == limbs[i] * 10 + carry
         IN  MulAddLimbs(limbs, i + 1, t \div LimbBase, Append(acc, t % LimbBase))

\* checked_mul(10) followed by checked_add(d)
CheckedMul10Add(limbs, d) ==
    LET r == MulAddLimbs(limbs, 1, d, <<>>)
    IN  [ok |-> r.carry = 0, val |-> r.val]

RECURSIVE ParseUsizeDigits(_, _, _)
ParseUsizeDigits(digits, i, acc) ==
    IF i > Len(digits) THEN SomeU(acc)
    ELSE IF ~IsDigit(digits[i]) THEN NoneU
    ELSE LET r == CheckedMul10Add(acc, DigitVal(digits[i]))
         IN  IF r.ok THEN ParseUsizeDigits(digits, i + 1, r.val) ELSE NoneU

\* A parse that takes digits only (no sign).
ParseUsizeNoSign(src) ==
    IF Len(src) = 0 THEN NoneU ELSE ParseUsizeDigits(src, 1, UsizeZero)

\* str::parse::<usize>().ok(): an optional "+", then digits, no overflow.
ParseUsize(src) ==
    IF Len(src) = 0 THEN NoneU
    ELSE IF Len(src) = 1 /\ src[1] \in {"+", "-"} THEN NoneU
    ELSE ParseUsizeDigits(IF src[1] = "+" THEN Tail(src) ELSE src, 1, UsizeZero)

\* usize of a small natural number (a Vec's len)
UsizeOfNat(n) ==
    [i \in 1..UsizeLimbs |-> IF i = 1 THEN n % LimbBase
                             ELSE IF i = 2 THEN n \div LimbBase ELSE 0]

\* `v as i32` of a usize: the low 32 bits, read as two's complement.
AsI32(limbs) ==
    IF limbs[2] >= LimbBase \div 2
    THEN (limbs[2] - LimbBase) * LimbBase + limbs[1]
    ELSE limbs[2] * LimbBase + limbs[1]

\* `v as usize` of an i32: sign-extended to the usize's width.
AsUsize(v) ==
    [i \in 1..UsizeLimbs |-> IF i = 1 THEN v % LimbBase
                             ELSE IF i = 2 THEN (v \div LimbBase) % LimbBase
                             ELSE IF v < 0 THEN LimbBase - 1 ELSE 0]

RECURSIVE UsizeGeqFrom(_, _, _)
UsizeGeqFrom(a, b, i) ==
    IF i = 0 THEN TRUE
    ELSE IF a[i] # b[i] THEN a[i] > b[i]
    ELSE UsizeGeqFrom(a, b, i - 1)

\* a >= b on usize
UsizeGeq(a, b) == UsizeGeqFrom(a, b, UsizeLimbs)

\* ------------------------------------------------------ i32 parsing
RECURSIVE ParseI32Digits(_, _, _, _)
\* mag is the magnitude read so far; the limit is I32Max, or I32Max + 1 when negative
ParseI32Digits(digits, i, mag, neg) ==
    IF i > Len(digits) THEN [ok |-> TRUE, val |-> IF neg THEN -mag ELSE mag]
    ELSE IF ~IsDigit(digits[i]) THEN [ok |-> FALSE, val |-> 0]
    ELSE LET d == DigitVal(digits[i])
             last == (I32Max % 10) + (IF neg THEN 1 ELSE 0)
         IN  IF mag > I32Max \div 10 \/ (mag = I32Max \div 10 /\ d > last)
             THEN [ok |-> FALSE, val |-> 0]
             ELSE IF neg /\ mag = I32Max \div 10 /\ d = last
             THEN (IF i = Len(digits) THEN [ok |-> TRUE, val |-> I32Min]
                   ELSE [ok |-> FALSE, val |-> 0])
             ELSE ParseI32Digits(digits, i + 1, mag * 10 + d, neg)

\* str::parse::<i32>(): an optional sign, then digits, no overflow.
ParseI32(src) ==
    IF Len(src) = 0 THEN [ok |-> FALSE, val |-> 0]
    ELSE IF Len(src) = 1 /\ src[1] \in {"+", "-"} THEN [ok |-> FALSE, val |-> 0]
    ELSE IF src[1] = "+" THEN ParseI32Digits(Tail(src), 1, 0, FALSE)
    ELSE IF src[1] = "-" THEN ParseI32Digits(Tail(src), 1, 0, TRUE)
    ELSE ParseI32Digits(src, 1, 0, FALSE)

\* ---------------------------------------------------- the parser proper
\* The default of get_from_or(Some("DISPLAY"), "adapter_name", "(#0)")
DefaultAdapterName == <<"(", "#", "0", ")">>
\* The default of get_from_or(Some("screenshot"), "screen", "0")
DefaultScreen == <<"0">>

\* Lines 98-112: the last "(#", the last ")", the slice between, parsed.
ExtractMonitorIndex(adapter_name) ==
    LET start == RFind(adapter_name, <<"(", "#">>)
        end == RFind(adapter_name, <<")">>)
    IN  IF ~start.some THEN NoneU
        ELSE IF ~end.some THEN NoneU
        ELSE LET substr == StrGet(adapter_name, start.val + 2, end.val)
             IN  IF ~substr.some THEN NoneU
                 ELSE ParseUsize(substr.val)

\* --------------------------------------------------------- the inputs
Alphabet == {"(", "#", ")", "7", "+"}
Strings(n) == UNION {[1..k -> Alphabet] : k \in 0..n}

LongAdapterNames ==
    { <<"(", "#", "0", ")">>,
      <<"A", "M", "D", " ", "R", "a", "d", "e", "o", "n", " ", "R", "X", " ",
        "5", "7", "0", "0", " ", "X", "T", "(", "#", "0", ")">>,
      <<"g", "a", "r", "b", "a", "g", "e">>,
      <<"(", "#", "1", ")", "(", "#", "2", ")">>,
      <<"a", "(", "b", ")", "(", "#", "1", "2", ")">>,
      <<"(", "#", "3", ")", "(", "x">>,
      <<"(", "#", "5", ")", "x">>,
      <<"x", ")", "(", "#", "5">>,
      <<"(", "#", "x", ")">>,
      <<"(", "#", "1", " ", ")">>,
      <<"(", "#", "-", "5", ")">>,
      <<"(", "#", "+", "5", ")">>,
      <<"(", "#", "0", "0", "7", ")">>,
      <<"e1", "e2", "(", "#", "3", ")">>,
      <<"(", "#", "3", "e1", "e2", ")">>,
      <<"(", "#", "2", "1", "4", "7", "4", "8", "3", "6", "4", "7", ")">>,
      <<"(", "#", "2", "1", "4", "7", "4", "8", "3", "6", "4", "8", ")">>,
      <<"(", "#", "4", "2", "9", "4", "9", "6", "7", "2", "9", "5", ")">>,
      <<"(", "#", "4", "2", "9", "4", "9", "6", "7", "2", "9", "6", ")">>,
      <<"(", "#", "4", "2", "9", "4", "9", "6", "7", "2", "9", "8", ")">>,
      <<"(", "#", "1", "8", "4", "4", "6", "7", "4", "4", "0", "7", "3", "7",
        "0", "9", "5", "5", "1", "6", "1", "5", ")">>,
      <<"(", "#", "1", "8", "4", "4", "6", "7", "4", "4", "0", "7", "3", "7",
        "0", "9", "5", "5", "1", "6", "1", "6", ")">>,
      <<"(", "#", "0", "0", "0", "0", "0", "0", "0", "0", "0", "0", "0", "0",
        "0", "0", "0", "0", "0", "0", "0", "0", "0", "0", "1", "2", ")">>,
      <<"(", "#", "9", "9", "9", "9", "9", "9", "9", "9", "9", "9", "9", "9",
        "9", "9", "9", "9", "9", "9", "9", "9", ")">> }

AdapterNames == Strings(MaxLen) \cup LongAdapterNames

\* The values of screenshot.screen tried: integers, the i32 limits, and malformed ones.
ScreenTexts ==
    { <<"0">>, <<"3">>, <<"5">>, <<"-", "1">>, <<"-", "5">>, <<"+", "2">>,
      <<"-", "2", "1", "4", "7", "4", "8", "3", "6", "4", "8">>,
      <<"2", "1", "4", "7", "4", "8", "3", "6", "4", "7">>,
      <<"2", "1", "4", "7", "4", "8", "3", "6", "4", "8">>,
      <<"a", "b", "c">>, <<>> }

\* ./config.ini: not loadable (absent, unreadable, not an ini file), or loaded
\* with the key screenshot.screen absent or set to a text.
LocalConfigs ==
    { [kind |-> "unloadable", has_key |-> FALSE, text |-> <<>>],
      [kind |-> "ok", has_key |-> FALSE, text |-> <<>>] }
    \cup {[kind |-> "ok", has_key |-> TRUE, text |-> t] : t \in ScreenTexts}

\* production_Config.ini: no documents directory, the file absent, its path not
\* UTF-8, the file not an ini file, or loaded with adapter_name absent or set.
PoeConfigs ==
    { [kind |-> k, has_key |-> FALSE, text |-> <<>>] :
        k \in {"no_docs_dir", "missing", "bad_path", "unparsable", "ok"} }
    \cup {[kind |-> "ok", has_key |-> TRUE, text |-> t] : t \in AdapterNames}

\* ----------------------------------------------------------- the state
VARIABLES
    pc,            \* the statement of main about to run
    localCfg,      \* ./config.ini as the run finds it
    poeCfg,        \* the external application's config as the run finds it
    screen_id,     \* main's screen_id: i32
    adapter_name,  \* the parser's adapter_name
    ret,           \* what active_monitor_number_from_poe_config returned
    out,           \* the lines printed so far
    trace,         \* the steps executed so far, in order
    screens,       \* screens.len() once Screen::all() returned, else -1
    indexed,       \* the indices at which the screens Vec was indexed
    panic_at       \* the step that panicked, "" if none

vars == <<pc, localCfg, poeCfg, screen_id, adapter_name, ret, out, trace,
          screens, indexed, panic_at>>

Line(kind, id, count, hi) == [kind |-> kind, id |-> id, count |-> count, hi |-> hi]
\* "PoE config path doesn't exist (are you on Linux?)"
PoeMissingLine == Line("poe_missing", 0, 0, UsizeZero)
\* "Couldn't auto-detect PoE screen, defaulting to 0"
FallbackLine == Line("fallback", 0, 0, UsizeZero)
\* "Using screen ID: {}"
UsingLine(id) == Line("using", id, 0, UsizeZero)
\* "Error: Cannot use screen {}, you only have {} screen(s) (IDs go from 0 to {})"
OutOfRangeLine(id, count, hi) == Line("out_of_range", id, count, hi)
\* "Screenshot saved to: {}"
SavedLine == Line("saved", 0, 0, UsizeZero)

Init ==
    /\ pc = "prepare_paths"
    /\ localCfg \in LocalConfigs
    /\ poeCfg \in PoeConfigs
    /\ screen_id = 0
    /\ adapter_name = <<>>
    /\ ret = NoneU
    /\ out = <<>>
    /\ trace = <<>>
    /\ screens = -1
    /\ indexed = <<>>
    /\ panic_at = ""

\* A step taken: pc moves on and the step is recorded.
Goto(step, next) ==
    /\ pc' = next
    /\ trace' = Append(trace, step)
    /\ panic_at' = panic_at

\* An unwrap() on None / Err, an overflow check or a bounds check failed.
Panic(step) ==
    /\ pc' = "panicked"
    /\ trace' = Append(trace, step)
    /\ panic_at' = step

\* Lines 10-14: env::current_dir().unwrap(), to_str().unwrap()
PreparePaths ==
    /\ pc = "prepare_paths"
    /\ \E cwd_ok \in BOOLEAN :
         IF cwd_ok THEN Goto("prepare_paths", "load_config")
         ELSE Panic("prepare_paths")
    /\ UNCHANGED <<localCfg, poeCfg, screen_id, adapter_name, ret, out,
                   screens, indexed>>

\* Lines 17-23: the value of screenshot.screen, or 0 when the file does not load.
LoadedScreenId(cfg) ==
    IF cfg.kind # "ok" THEN [ok |-> TRUE, val |-> 0]
    ELSE ParseI32(IF cfg.has_key THEN cfg.text ELSE DefaultScreen)

LoadConfig ==
    /\ pc = "load_config"
    /\ LET r == LoadedScreenId(localCfg)
       IN  IF r.ok
           THEN /\ screen_id' = r.val
                /\ Goto("load_config", "check_auto")
           ELSE /\ screen_id' = screen_id
                /\ Panic("load_config")
    /\ UNCHANGED <<localCfg, poeCfg, adapter_name, ret, out, screens, indexed>>

\* A test that takes every negative value for the sentinel.
IsAutoDetectNegative(id) == id < 0

\* Line 25: screen_id == -1
IsAutoDetect(id) == id = -1

CheckAutoDetect ==
    /\ pc = "check_auto"
    /\ IF IsAutoDetect(screen_id)
       THEN Goto("check_auto", "poe_config_path")
       ELSE Goto("check_auto", "print_using")
    /\ UNCHANGED <<localCfg, poeCfg, screen_id, adapter_name, ret, out,
                   screens, indexed>>

\* Lines 27, 69-76: poe_config_path().unwrap()
PoeConfigPath ==
    /\ pc = "poe_config_path"
    /\ IF poeCfg.kind = "no_docs_dir"
       THEN Panic("poe_config_path")
       ELSE Goto("poe_config_path", "poe_exists")
    /\ UNCHANGED <<localCfg, poeCfg, screen_id, adapter_name, ret, out,
                   screens, indexed>>

\* An existence test that always answers yes.
PathExistsAlways(cfg) == TRUE

\* Path::exists()
PathExists(cfg) == cfg.kind \notin {"no_docs_dir", "missing"}

\* Lines 87-92: the existence check, its diagnostic and the early return.
PoeExists ==
    /\ pc = "poe_exists"
    /\ IF ~PathExists(poeCfg)
       THEN /\ out' = Append(out, PoeMissingLine)
            /\ ret' = NoneU
            /\ Goto("poe_exists", "match_result")
       ELSE /\ UNCHANGED <<out, ret>>
            /\ Goto("poe_exists", "poe_load")
    /\ UNCHANGED <<localCfg, poeCfg, screen_id, adapter_name, screens, indexed>>

\* Lines 94-96: to_str().unwrap(), Ini::load_from_file(..).unwrap(), get_from_or
PoeLoad ==
    /\ pc = "poe_load"
    /\ IF poeCfg.kind # "ok"
       THEN /\ adapter_name' = adapter_name
            /\ Panic("poe_load")
       ELSE /\ adapter_name' = IF poeCfg.has_key THEN poeCfg.text
                               ELSE DefaultAdapterName
            /\ Goto("poe_load", "parse_adapter_name")
    /\ UNCHANGED <<localCfg, poeCfg, screen_id, ret, out, screens, indexed>>

\* Lines 98-112
ParseAdapterName ==
    /\ pc = "parse_adapter_name"
    /\ ret' = ExtractMonitorIndex(adapter_name)
    /\ Goto("parse_adapter_name", "match_result")
    /\ UNCHANGED <<localCfg, poeCfg, screen_id, adapter_name, out, screens, indexed>>

\* A match arm that falls back without printing.
AutoDetectedSilent(r) ==
    IF r.some THEN [id |-> AsI32(r.val), lines |-> <<>>]
    ELSE [id |-> 0, lines |-> <<>>]

\* Lines 28-34: Some(val) => val as i32, None => the fallback line and 0
AutoDetected(r) ==
    IF r.some THEN [id |-> AsI32(r.val), lines |-> <<>>]
    ELSE [id |-> 0, lines |-> <<FallbackLine>>]

MatchResult ==
    /\ pc = "match_result"
    /\ screen_id' = AutoDetected(ret).id
    /\ out' = out \o AutoDetected(ret).lines
    /\ Goto("match_result", "print_using")
    /\ UNCHANGED <<localCfg, poeCfg, adapter_name, ret, screens, indexed>>

\* Line 37
PrintUsing ==
    /\ pc = "print_using"
    /\ out' = Append(out, UsingLine(screen_id))
    /\ Goto("print_using", "screens_all")
    /\ UNCHANGED <<localCfg, poeCfg, screen_id, adapter_name, ret, screens, indexed>>

\* Line 47: Screen::all().unwrap()
ScreensAll ==
    /\ pc = "screens_all"
    /\ \/ \E n \in 0..MaxScreens :
            /\ screens' = n
            /\ Goto("screens_all", "range_check")
       \/ /\ screens' = screens
          /\ Panic("screens_all")
    /\ UNCHANGED <<localCfg, poeCfg, screen_id, adapter_name, ret, out, indexed>>

\* Line 50: screen_id as usize >= screens.len()
OutOfRange(id, len) == UsizeGeq(AsUsize(id), UsizeOfNat(len))

\* Lines 50-57: the branch; lines 51-56: the error line.  screens.len() - 1
\* of an empty Vec panics in a build with overflow checks and wraps in one without.
RangeCheck ==
    /\ pc = "range_check"
    /\ IF OutOfRange(screen_id, screens)
       THEN IF screens = 0
            THEN \/ /\ out' = out
                    /\ Panic("range_check")
                 \/ /\ out' = Append(out, OutOfRangeLine(screen_id, screens, UsizeMax))
                    /\ Goto("range_check", "done")
            ELSE /\ out' = Append(out, OutOfRangeLine(screen_id, screens,
                                                      UsizeOfNat(screens - 1)))
                 /\ Goto("range_check", "done")
       ELSE /\ out' = out
            /\ Goto("range_check", "capture")
    /\ UNCHANGED <<localCfg, poeCfg, screen_id, adapter_name, ret, screens, indexed>>

\* Lines 58-61: screens[screen_id as usize], screen.capture().unwrap()
Capture ==
    /\ pc = "capture"
    /\ indexed' = Append(indexed, AsUsize(screen_id))
    /\ IF OutOfRange(screen_id, screens)
       THEN Panic("capture")
       ELSE \E capture_ok \in BOOLEAN :
              IF capture_ok THEN Goto("capture", "save") ELSE Panic("capture")
    /\ UNCHANGED <<localCfg, poeCfg, screen_id, adapter_name, ret, out, screens>>

\* Lines 62-64: image.save(image_path).unwrap() and the last line
Save ==
    /\ pc = "save"
    /\ \E save_ok \in BOOLEAN :
         IF save_ok
         THEN /\ out' = Append(out, SavedLine)
              /\ Goto("save", "done")
         ELSE /\ out' = out
              /\ Panic("save")
    /\ UNCHANGED <<localCfg, poeCfg, screen_id, adapter_name, ret, screens, indexed>>

Next ==
    \/ PreparePaths
    \/ LoadConfig
    \/ CheckAutoDetect
    \/ PoeConfigPath
    \/ PoeExists
    \/ PoeLoad
    \/ ParseAdapterName
    \/ MatchResult
    \/ PrintUsing
    \/ ScreensAll
    \/ RangeCheck
    \/ Capture
    \/ Save

Spec == Init /\ [][Next]_vars

\* ------------------------------------------- vocabulary of the properties
\* The step was executed in this run.
Did(step) == \E i \in DOMAIN trace : trace[i] = step

Max(S) == CHOOSE m \in S : \A x \in S : x <= m

\* Positions (1-based) of the "(#" markers and of the ")" characters of s.
Opens(s) == {k \in 1..(Len(s) - 1) : s[k] = "(" /\ s[k + 1] = "#"}
Closes(s) == {k \in 1..Len(s) : s[k] = ")"}

\* The last ")" comes after the end of the last "(#".
InOrder(s) ==
    /\ Opens(s) # {}
    /\ Closes(s) # {}
    /\ Max(Closes(s)) >= Max(Opens(s)) + 2

\* The text strictly between the last "(#" and the last ")".
Between(s) == SubSeq(s, Max(Opens(s)) + 2, Max(Closes(s)) - 1)

DecimalDigits == {"0", "1", "2", "3", "4", "5", "6", "7", "8", "9"}
AllDigits(d) == \A k \in 1..Len(d) : d[k] \in DecimalDigits

\* s ends in a group (#N), N one digit or more, that holds the last "(#" and the last ")".
RightmostGroup(s) == InOrder(s) /\ Between(s) # <<>> /\ AllDigits(Between(s))

RECURSIVE StripZeros(_)
StripZeros(d) ==
    IF Len(d) > 1 /\ d[1] = "0" THEN StripZeros(Tail(d)) ELSE d

RECURSIVE LexLeq(_, _, _)
LexLeq(a, b, i) ==
    IF i > Len(a) THEN TRUE
    ELSE IF a[i] # b[i] THEN DigitVal(a[i]) < DigitVal(b[i])
    ELSE LexLeq(a, b, i + 1)

\* 2^64 - 1 in decimal
UsizeMaxDecimal ==
    <<"1", "8", "4", "4", "6", "7", "4", "4", "0", "7", "3", "7", "0", "9",
      "5", "5", "1", "6", "1", "5">>

\* The numeral d (digits only) denotes a value of at most 2^64 - 1.
FitsUsize(d) ==
    LET n == StripZeros(d)
    IN  \/ Len(n) < Len(UsizeMaxDecimal)
        \/ Len(n) = Len(UsizeMaxDecimal) /\ LexLeq(n, UsizeMaxDecimal, 1)

RECURSIVE DivLimbs(_, _, _, _)
\* limbs divided by 10, from the most significant limb down
DivLimbs(limbs, i, rem, acc) ==
    IF i = 0 THEN [q |-> acc, r |-> rem]
    ELSE LET t == rem * LimbBase + limbs[i]
         IN  DivLimbs(limbs, i - 1, t % 10, [acc EXCEPT ![i] = t \div 10])

RECURSIVE DecimalFrom(_)
DecimalFrom(limbs) ==
    IF limbs = UsizeZero THEN <<>>
    ELSE LET dm == DivLimbs(limbs, UsizeLimbs, 0, UsizeZero)
         IN  Append(DecimalFrom(dm.q), DigitChars[dm.r + 1])

\* The decimal numeral of a usize, without leading zeros.
Decimal(limbs) == IF limbs = UsizeZero THEN <<"0">> ELSE DecimalFrom(limbs)

\* The parser ran on adapter_name and ret holds its result.
Parsed == Did("parse_adapter_name")

\* ------------------------------------------------------------------ C1
\* C1 as stated: whenever the adapter name's rightmost parenthesized group is
\* (#N) with N one or more decimal digits, the parser returns N.
C1_LastGroupAnyDigits ==
    (Parsed /\ RightmostGroup(adapter_name))
        => (ret.some /\ Decimal(ret.val) = StripZeros(Between(adapter_name)))

\* C1 amended: whenever the adapter name's rightmost parenthesized group is
\* (#N) with N one or more decimal digits of value at most 2^64-1, the parser
\* returns exactly N, whatever text or earlier groups precede it (last match wins).
C1_LastGroupWins ==
    (Parsed /\ RightmostGroup(adapter_name) /\ FitsUsize(Between(adapter_name)))
        => (ret.some /\ Decimal(ret.val) = StripZeros(Between(adapter_name)))

\* An adapter name with two (#N) groups was parsed and the last one was returned.
C1_Witness ==
    /\ Parsed
    /\ Cardinality(Opens(adapter_name)) >= 2
    /\ Cardinality(Closes(adapter_name)) >= 2
    /\ RightmostGroup(adapter_name)
    /\ ret.some
    /\ Decimal(ret.val) = Between(adapter_name)

\* ------------------------------------------------------------------ C2
\* C2: an adapter name with no "(#", or with no ")", or whose last ")" does
\* not come after the last "(#", parses to "not found", and the parser does
\* not panic on it.
C2_NotFoundWithoutMarkers ==
    (Parsed /\ ~InOrder(adapter_name))
        => (ret = NoneU /\ panic_at # "parse_adapter_name" /\ pc # "parse_adapter_name")

\* Both markers are there, the last ")" before the last "(#", and the result is None.
C2_Witness ==
    /\ Parsed
    /\ Opens(adapter_name) # {}
    /\ Closes(adapter_name) # {}
    /\ Max(Closes(adapter_name)) < Max(Opens(adapter_name))
    /\ ret = NoneU
    /\ pc # "panicked"

\* ------------------------------------------------------------------ C3
\* C3 as stated: with both markers in order, the parser returns an integer
\* exactly when the text between them is one or more decimal digits.
C3_IntegerIffDigits ==
    (Parsed /\ InOrder(adapter_name))
        => (ret.some <=> (Between(adapter_name) # <<>> /\ AllDigits(Between(adapter_name))))

\* An optional single "+", then one or more digits, of value at most 2^64-1.
IsUsizeNumeral(d) ==
    LET digits == IF d # <<>> /\ d[1] = "+" THEN Tail(d) ELSE d
    IN  digits # <<>> /\ AllDigits(digits) /\ FitsUsize(digits)

\* C3 amended: with both markers in order, the parser returns an integer
\* exactly when the text between them is one or more decimal digits, after an
\* optional single "+", of value at most 2^64-1; for anything else, the empty
\* text of "(#)" included, it returns "not found".
C3_IntegerIffNumeral ==
    (Parsed /\ InOrder(adapter_name))
        => /\ ret.some <=> IsUsizeNumeral(Between(adapter_name))
           /\ Between(adapter_name) = <<>> => ret = NoneU

\* A signed numeral between the markers was parsed to an integer.
C3_Witness ==
    /\ Parsed
    /\ InOrder(adapter_name)
    /\ Between(adapter_name) # <<>>
    /\ Between(adapter_name)[1] = "+"
    /\ ret.some

\* ------------------------------------------- the resolver's vocabulary
\* The steps of main that consult the external application's configuration.
PoeSteps ==
    {"poe_config_path", "poe_exists", "poe_load", "parse_adapter_name", "match_result"}

\* ./config.ini sets screenshot.screen to -1.
LocalIsAuto ==
    localCfg.kind = "ok" /\ localCfg.has_key /\ localCfg.text = <<"-", "1">>

\* The values of screenshot.screen that are integers other than -1, with their value.
ExplicitValue(t) ==
    CASE t = <<"0">> -> 0
      [] t = <<"3">> -> 3
      [] t = <<"5">> -> 5
      [] t = <<"-", "5">> -> -5
      [] t = <<"+", "2">> -> 2
      [] t = <<"-", "2", "1", "4", "7", "4", "8", "3", "6", "4", "8">> -> I32Min
      [] t = <<"2", "1", "4", "7", "4", "8", "3", "6", "4", "7">> -> I32Max
ExplicitTexts ==
    { <<"0">>, <<"3">>, <<"5">>, <<"-", "5">>, <<"+", "2">>,
      <<"-", "2", "1", "4", "7", "4", "8", "3", "6", "4", "8">>,
      <<"2", "1", "4", "7", "4", "8", "3", "6", "4", "7">> }
LocalIsExplicit ==
    localCfg.kind = "ok" /\ localCfg.has_key /\ localCfg.text \in ExplicitTexts

\* The values of screenshot.screen that are no i32.
MalformedTexts == { <<"a", "b", "c">>, <<>>,
                    <<"2", "1", "4", "7", "4", "8", "3", "6", "4", "8">> }
\* ./config.ini is missing or unreadable, or lacks the option, or its value is malformed.
LocalIsBroken ==
    \/ localCfg.kind = "unloadable"
    \/ ~localCfg.has_key
    \/ localCfg.text \in MalformedTexts

\* The lines printed before the first "Using screen ID" line.
BeforeUsing ==
    LET u == CHOOSE k \in DOMAIN out :
                 out[k].kind = "using" /\ \A j \in 1..(k - 1) : out[j].kind # "using"
    IN  SubSeq(out, 1, u - 1)
UsingPrinted == \E k \in DOMAIN out : out[k].kind = "using"
Count(lines, kind) == Cardinality({k \in DOMAIN lines : lines[k].kind = kind})

\* ------------------------------------------------------------------ C4
\* The diagnostic lines among `lines`: the missing-file line and the fallback line.
Diagnostics(lines) == Count(lines, "poe_missing") + Count(lines, "fallback")

C5_ExplicitValueAsIs ==
    (LocalIsExplicit /\ Did("check_auto"))
        => /\ screen_id = ExplicitValue(localCfg.text)
           /\ \A s \in PoeSteps : ~Did(s)
           /\ pc \notin PoeSteps
           /\ adapter_name = <<>>
           /\ Did("print_using") => out[1] = UsingLine(ExplicitValue(localCfg.text))

\* A negative explicit value was reported as it is, beside an external config
\* that names another monitor.
C5_Witness ==
    /\ LocalIsExplicit
    /\ ExplicitValue(localCfg.text) < -1
    /\ poeCfg.kind = "ok"
    /\ poeCfg.has_key
    /\ ExtractMonitorIndex(poeCfg.text).some
    /\ Did("print_using")
    /\ out[1] = UsingLine(ExplicitValue(localCfg.text))

\* ------------------------------------------------------------------ C6
\* C6: a local configuration that is missing, unreadable or corrupt (no file,
\* no screenshot.screen option, or a value that is no integer) raises no
\* failure when loaded, and the screen id is the default 0.
C6_BrokenLocalConfigDefaults ==
    LocalIsBroken
        => /\ panic_at # "load_config"
           /\ Did("load_config") => screen_id = 0

\* ------------------------------------------------------------------ C7
\* C7: in auto-detect mode, each of: no documents directory, no external
\* config file, an external config file that cannot be parsed, ends in a
\* diagnostic and screen id 0, never in a panic: the run goes on to "Using
\* screen ID".
C7_AutoDetectFailsSoftly ==
    (LocalIsAuto /\ poeCfg.kind \in {"no_docs_dir", "missing", "unparsable"})
        => /\ panic_at \notin PoeSteps
           /\ Did("print_using")
                => (screen_id = 0 /\ Count(BeforeUsing, "fallback") >= 1)

\* ------------------------------------------------------------------ C8
\* The usize v is the integer n.
UsizeIsInt(v, n) == n >= 0 /\ v = UsizeOfNat(n)

\* C8: for every number of monitors and every screen id outside 0..count-1,
\* the range check does not panic, the monitor list is not indexed and nothing
\* is captured or saved, the last line printed is the out-of-range message
\* citing ids 0 to count-1, and the run ends cleanly; a capture is attempted
\* only with 0 <= id < count.
C8_OutOfRangeReported ==
    /\ (Did("range_check") /\ (screen_id < 0 \/ screen_id >= screens))
         => /\ pc = "done"
            /\ panic_at = ""
            /\ indexed = <<>>
            /\ ~Did("capture")
            /\ out[Len(out)].kind = "out_of_range"
            /\ out[Len(out)].id = screen_id
            /\ out[Len(out)].count = screens
            /\ UsizeIsInt(out[Len(out)].hi, screens - 1)
    /\ Did("capture") => (0 <= screen_id /\ screen_id < screens)

\* ------------------------------------------------------------------ C9
\* C9: the external file's existence is checked before any load of it, and
\* when the file is missing the run prints the missing-file line and never
\* executes the load or the adapter-name parsing.
C9_ExistenceCheckedFirst ==
    /\ \A i \in DOMAIN trace :
         trace[i] \in {"poe_load", "parse_adapter_name"}
             => \E j \in 1..(i - 1) : trace[j] = "poe_exists"
    /\ (poeCfg.kind = "missing" /\ Did("poe_exists"))
         => /\ ~Did("poe_load")
            /\ ~Did("parse_adapter_name")
            /\ pc \notin {"poe_load", "parse_adapter_name"}
            /\ Count(out, "poe_missing") = 1
            /\ adapter_name = <<>>

\* A run found the external file missing and went on to print its screen id.
C9_Witness ==
    /\ poeCfg.kind = "missing"
    /\ Did("poe_exists")
    /\ Did("print_using")
    /\ Count(out, "poe_missing") = 1
    /\ ~Did("poe_load")

\* ----------------------------------------------------------------- C10
\* C10: whenever auto-detection yields Some(N), the screen id is N: it is not
\* negative, not the sentinel -1, and equal in value to N.
C10_IndexSurvivesCast ==
    (Did("match_result") /\ ret.some)
        => /\ screen_id >= 0
           /\ screen_id # -1
           /\ UsizeIsInt(ret.val, screen_id)

====
